---------------------------- MODULE Spec2Model ----------------------------
(***************************************************************************)
(* Model of contracts/main.py: the parse cache (Storage.string2contract), *)
(* the extension registry (Extension.registrar) and the public operations *)
(* parse_contract_string, check, check_multiple, fail and new_contract.   *)
(*                                                                         *)
(* A contract text is a sequence of one-character strings.  The grammar,  *)
(* the contract nodes and their check protocol live in modules that      *)
(* main.py imports (syntax, library, interface); they are modelled here   *)
(* by the part of them that main.py drives.                               *)
(***************************************************************************)
EXTENDS Integers, Sequences, FiniteSets, TLC

(***************************************************************************)
(* Bounds                                                                  *)
(***************************************************************************)
\* longest list of couples handed to check_multiple
MaxPairs == 2

(***************************************************************************)
(* Characters and tokens                                                   *)
(***************************************************************************)
Digits == {"0", "1", "2", "3", "4", "5", "6", "7", "8", "9"}

LowerLetters == {"a", "b", "c", "d", "e", "f", "g", "h", "i", "j", "k", "l",
                 "m", "n", "o", "p", "q", "r", "s", "t", "u", "v", "w", "x",
                 "y", "z"}

UpperLetters == {"A", "B", "C", "D", "E", "F", "G", "H", "I", "J", "K", "L",
                 "M", "N", "O", "P", "Q", "R", "S", "T", "U", "V", "W", "X",
                 "Y", "Z"}

WordChars == LowerLetters \cup UpperLetters \cup Digits \cup {"_"}

\* length of the longest prefix of s made of word characters
RECURSIVE WordLen(_)
WordLen(s) ==
    IF s = <<>> \/ Head(s) \notin WordChars THEN 0 ELSE 1 + WordLen(Tail(s))

\* the grammar engine skips blanks between tokens; a token is a maximal run
\* of word characters or a single punctuation character
RECURSIVE Tokenize(_)
Tokenize(s) ==
    IF s = <<>> THEN <<>>
    ELSE IF Head(s) = " " THEN Tokenize(Tail(s))
    ELSE IF Head(s) \in WordChars
         THEN LET n == WordLen(s)
              IN  <<SubSeq(s, 1, n)>> \o Tokenize(SubSeq(s, n + 1, Len(s)))
         ELSE <<<<Head(s)>>>> \o Tokenize(Tail(s))

IsNumber(tok) == tok # <<>> /\ \A i \in 1..Len(tok) : tok[i] \in Digits

DigitVal(c) ==
    CASE c = "0" -> 0 [] c = "1" -> 1 [] c = "2" -> 2 [] c = "3" -> 3
      [] c = "4" -> 4 [] c = "5" -> 5 [] c = "6" -> 6 [] c = "7" -> 7
      [] c = "8" -> 8 [] c = "9" -> 9

RECURSIVE NumVal(_)
NumVal(tok) ==
    IF tok = <<>> THEN 0
    ELSE 10 * NumVal(SubSeq(tok, 1, Len(tok) - 1)) + DigitVal(tok[Len(tok)])

\* a variable of the contract language: one upper-case letter
IsVariable(tok) == Len(tok) = 1 /\ tok[1] \in UpperLetters

\* identifier_expression.parseString(identifier, parseAll=True) succeeds:
\* letters, digits and underscores, not starting with a digit
IsIdentifier(s) ==
    /\ s # <<>>
    /\ \A i \in 1..Len(s) : s[i] \in WordChars
    /\ s[1] \notin Digits

KW_int   == <<"i", "n", "t">>
KW_str   == <<"s", "t", "r">>
KW_list  == <<"l", "i", "s", "t">>
KW_tuple == <<"t", "u", "p", "l", "e">>

(***************************************************************************)
(* Contract nodes: tuples whose first element names the class.             *)
(***************************************************************************)
NoNode == <<>>

Wildcard             == <<"Wildcard">>
CheckType(t)         == <<"CheckType", t>>
Variable(v)          == <<"Variable", v>>
Compare(op, n)       == <<"Compare", op, n>>
And(clauses)         == <<"And", clauses>>
List(len, elem)      == <<"List", len, elem>>
Tuple(elems)         == <<"Tuple", elems>>
Extension(id)        == <<"Extension", id>>
SeparateContext(c)   == <<"SeparateContext", c>>
CheckCallable(f)     == <<"CheckCallable", f>>

(***************************************************************************)
(* The grammar: contract.parseString(string, parseAll=True).               *)
(* A result is [err, node, rest]; err is "none", "ParseException" or       *)
(* "ParseFatalException" (a failure after an opening bracket committed     *)
(* the parse).  An identifier is an expression only while it is a key of   *)
(* the registry.                                                           *)
(***************************************************************************)
POk(node, rest) == [err |-> "none", node |-> node, rest |-> rest]
PErr            == [err |-> "ParseException", node |-> NoNode, rest |-> <<>>]
PFatal          == [err |-> "ParseFatalException", node |-> NoNode, rest |-> <<>>]

\* inside brackets every failure is fatal
Commit(r) == IF r.err = "none" THEN r ELSE PFatal

Expect(r, tok) ==
    IF r.err # "none" THEN r
    ELSE IF r.rest # <<>> /\ Head(r.rest) = tok
         THEN POk(r.node, Tail(r.rest))
         ELSE PFatal

NextIs(toks, tok) == toks # <<>> /\ Head(toks) = tok

RECURSIVE ParseContract(_, _)
RECURSIVE ParseClause(_, _)
RECURSIVE ParseMore(_, _, _)
RECURSIVE ParseElems(_, _, _)

\* list, list[len], list(elem), list[len](elem)
ListLen(toks, reg) ==
    IF NextIs(toks, <<"[">>)
    THEN Expect(Commit(ParseClause(Tail(toks), reg)), <<"]">>)
    ELSE POk(NoNode, toks)

ListElem(toks, reg) ==
    IF NextIs(toks, <<"(">>)
    THEN Expect(Commit(ParseContract(Tail(toks), reg)), <<")">>)
    ELSE POk(NoNode, toks)

ListDone(len, elemPart) ==
    IF elemPart.err # "none" THEN elemPart
    ELSE POk(List(len, elemPart.node), elemPart.rest)

ListRest(lenPart, reg) ==
    IF lenPart.err # "none" THEN lenPart
    ELSE ListDone(lenPart.node, ListElem(lenPart.rest, reg))

ParseList(toks, reg) == ListRest(ListLen(toks, reg), reg)

\* the elements of tuple(...), separated by commas
ElemsNext(r, reg, acc) ==
    IF r.err # "none" THEN r
    ELSE IF NextIs(r.rest, <<",">>)
         THEN ParseElems(Tail(r.rest), reg, Append(acc, r.node))
         ELSE POk(Tuple(Append(acc, r.node)), r.rest)

ParseElems(toks, reg, acc) == ElemsNext(Commit(ParseClause(toks, reg)), reg, acc)

ParseTuple(toks, reg) ==
    IF NextIs(toks, <<"(">>)
    THEN Expect(ParseElems(Tail(toks), reg, <<>>), <<")">>)
    ELSE POk(CheckType("tuple"), toks)

\* An identifier is an expression only while it is registered:
\* new_contract_impl takes ContractSyntaxError from parse(identifier) as
\* the sign of a new name, and after the registry write expects parse to
\* answer Extension(identifier).
ExtensionReference(h, r, reg) ==
    IF IsIdentifier(h) /\ h \in DOMAIN reg THEN POk(Extension(h), r) ELSE PErr

ParseClause(toks, reg) ==
    IF toks = <<>> THEN PErr
    ELSE LET h == Head(toks)
             r == Tail(toks)
         IN  CASE h = <<"*">>  -> POk(Wildcard, r)
               [] h = KW_int   -> POk(CheckType("int"), r)
               [] h = KW_str   -> POk(CheckType("str"), r)
               [] h = KW_list  -> ParseList(r, reg)
               [] h = KW_tuple -> ParseTuple(r, reg)
               [] h \in {<<">">>, <<"<">>} ->
                      IF r # <<>> /\ IsNumber(Head(r))
                      THEN POk(Compare(h[1], NumVal(Head(r))), Tail(r))
                      ELSE PErr
               [] IsVariable(h) -> POk(Variable(h[1]), r)
               [] OTHER -> ExtensionReference(h, r, reg)

\* clause (',' clause)*
MoreNext(r, reg, acc) ==
    IF r.err # "none" THEN r ELSE ParseMore(r.rest, reg, Append(acc, r.node))

ParseMore(toks, reg, acc) ==
    IF NextIs(toks, <<",">>)
    THEN MoreNext(ParseClause(Tail(toks), reg), reg, acc)
    ELSE POk(IF Len(acc) = 1 THEN acc[1] ELSE And(acc), toks)

ContractRest(r, reg) ==
    IF r.err # "none" THEN r ELSE ParseMore(r.rest, reg, <<r.node>>)

ParseContract(toks, reg) == ContractRest(ParseClause(toks, reg), reg)

\* parseAll=True: the whole string must be consumed
WholeString(r) ==
    IF r.err # "none" THEN r
    ELSE IF r.rest # <<>> THEN PErr
    ELSE r

parseString(string, reg) == WholeString(ParseContract(Tokenize(string), reg))

(***************************************************************************)
(* Run-time values: <<"int", n>>, <<"str", chars>>, <<"list", elems>>,     *)
(* <<"tuple", elems>>, <<"function", name, nparams>> and None.             *)
(***************************************************************************)
IntV(n)        == <<"int", n>>
StrV(s)        == <<"str", s>>
ListV(elems)   == <<"list", elems>>
TupleV(elems)  == <<"tuple", elems>>
DictV(items)   == <<"dict", items>>
FunV(name, n)  == <<"function", name, n>>
None           == <<"None">>

IsStr(v)      == v[1] = "str"
IsCallable(v) == v[1] = "function"

\* what a registered predicate answers for a value
CallPredicate(f, v) ==
    CASE f[2] = "is_list" -> v[1] = "list"
      [] OTHER            -> FALSE

(***************************************************************************)
(* Context: the variables bound so far, a function from names to values.   *)
(***************************************************************************)
Context == [x \in {} |-> None]

Bind(ctx, name, v) ==
    [x \in DOMAIN ctx \cup {name} |-> IF x = name THEN v ELSE ctx[x]]

(***************************************************************************)
(* The check protocol: c._check_contract(context, value).  A result is    *)
(* [ok, ctx]: ok = FALSE stands for ContractNotRespected, ctx is the      *)
(* context as the traversal left it.                                       *)
(***************************************************************************)
COk(ctx)   == [ok |-> TRUE, ctx |-> ctx]
CFail(ctx) == [ok |-> FALSE, ctx |-> ctx]

RECURSIVE check_contract(_, _, _, _)
RECURSIVE CheckClauses(_, _, _, _)
RECURSIVE CheckElements(_, _, _, _)
RECURSIVE CheckItems(_, _, _, _)

\* And: every clause against the same value, left to right
ClausesNext(clauses, r, v, reg) ==
    IF r.ok THEN CheckClauses(Tail(clauses), r.ctx, v, reg) ELSE r

CheckClauses(clauses, ctx, v, reg) ==
    IF clauses = <<>> THEN COk(ctx)
    ELSE ClausesNext(clauses, check_contract(Head(clauses), ctx, v, reg), v, reg)

\* list(elem): every element against elem, in order
ElementsNext(elem, r, vs, reg) ==
    IF r.ok THEN CheckElements(elem, r.ctx, Tail(vs), reg) ELSE r

CheckElements(elem, ctx, vs, reg) ==
    IF vs = <<>> THEN COk(ctx)
    ELSE ElementsNext(elem, check_contract(elem, ctx, Head(vs), reg), vs, reg)

\* tuple(e1, ..., en): the i-th element against ei
ItemsNext(elems, r, vs, reg) ==
    IF r.ok THEN CheckItems(Tail(elems), r.ctx, Tail(vs), reg) ELSE r

CheckItems(elems, ctx, vs, reg) ==
    IF elems = <<>> THEN COk(ctx)
    ELSE ItemsNext(elems, check_contract(Head(elems), ctx, Head(vs), reg), vs, reg)

\* list[len](elem): the length first, then the elements
CheckLength(c, ctx, v, reg) ==
    IF c[2] = NoNode THEN COk(ctx)
    ELSE check_contract(c[2], ctx, IntV(Len(v[2])), reg)

CheckList(c, l, v, reg) ==
    IF ~l.ok \/ c[3] = NoNode THEN l
    ELSE CheckElements(c[3], l.ctx, v[2], reg)

\* SeparateContext: the outcome of the private check, the outer context kept
Isolated(r, ctx) == [ok |-> r.ok, ctx |-> ctx]

check_contract(c, ctx, v, reg) ==
    CASE c[1] = "Wildcard"  -> COk(ctx)
      [] c[1] = "CheckType" -> IF v[1] = c[2] THEN COk(ctx) ELSE CFail(ctx)
      [] c[1] = "Variable"  ->
             IF c[2] \in DOMAIN ctx
             THEN IF ctx[c[2]] = v THEN COk(ctx) ELSE CFail(ctx)
             ELSE COk(Bind(ctx, c[2], v))
      [] c[1] = "Compare"   ->
             IF v[1] # "int" THEN CFail(ctx)
             ELSE IF c[2] = ">" THEN (IF v[2] > c[3] THEN COk(ctx) ELSE CFail(ctx))
             ELSE (IF v[2] < c[3] THEN COk(ctx) ELSE CFail(ctx))
      [] c[1] = "And"       -> CheckClauses(c[2], ctx, v, reg)
      [] c[1] = "List"      ->
             IF v[1] # "list" THEN CFail(ctx)
             ELSE CheckList(c, CheckLength(c, ctx, v, reg), v, reg)
      [] c[1] = "Tuple"     ->
             IF v[1] # "tuple" \/ Len(v[2]) # Len(c[2]) THEN CFail(ctx)
             ELSE CheckItems(c[2], ctx, v[2], reg)
      [] c[1] = "Extension" ->
             \* the named indirection through the registry
             IF c[2] \in DOMAIN reg
             THEN check_contract(reg[c[2]], ctx, v, reg)
             ELSE CFail(ctx)
      [] c[1] = "SeparateContext" ->
             \* a private context, thrown away afterwards
             Isolated(check_contract(c[2], Context, v, reg), ctx)
      [] c[1] = "CheckCallable" ->
             IF CallPredicate(c[2], v) THEN COk(ctx) ELSE CFail(ctx)

(***************************************************************************)
(* State                                                                   *)
(***************************************************************************)
VARIABLES
    string2contract,  \* Storage.string2contract: text -> node
    registrar,        \* Extension.registrar: identifier -> node
    call,             \* the last top-level call: <<name, arguments...>>
    exc,              \* the exception it raised, or "none"
    result,           \* what it returned (None when it raised)
    engine,           \* the texts it handed to the grammar engine, in order
    trace,            \* check_contracts: [ok, ctx] after each pair it checked
    steps,            \* new_contract_impl: the stages it went through
    entry,            \* the tables and held as they were when the call began
    held,             \* the context the caller got from its last check
    decorated,        \* the wrappers contracts has made: name -> wrapper
    threads           \* threads inside new_contract_impl: their position and
                      \* locals, the order of their registry writes, and
                      \* whether two calls ever overlapped

vars == <<string2contract, registrar, call, exc, result, engine, trace, steps,
          entry, held, decorated, threads>>

EmptyMap == [x \in {} |-> NoNode]

Put(m, k, v) == [x \in DOMAIN m \cup {k} |-> IF x = k THEN v ELSE m[x]]

\* a contract that lets the empty list through: list(tuple(str, *))
CouplesContract_any_length ==
    <<"l", "i", "s", "t", "(", "t", "u", "p", "l", "e",
      "(", "s", "t", "r", ",", " ", "*", ")", ")">>

\* the contract check_multiple holds its own argument to
CouplesContract ==
    <<"l", "i", "s", "t", "[", ">", "0", "]", "(", "t", "u", "p", "l", "e",
      "(", "s", "t", "r", ",", " ", "*", ")", ")">>

(***************************************************************************)
(* main.py.  st is the state of Storage during a call:                    *)
(* [string2contract, engine]; reg is Extension.registrar.  Every function *)
(* answers [exc, ...]: exc is the exception it raised, or "none".         *)
(***************************************************************************)
\* a grammar failure swallowed: the string is cached as "anything goes"
Parsed_swallows(string, r, st) ==
    [exc |-> "none", c |-> IF r.err = "none" THEN r.node ELSE Wildcard,
     st  |-> [string2contract |->
                  Put(st.string2contract, string,
                      IF r.err = "none" THEN r.node ELSE Wildcard),
              engine |-> Append(st.engine, string)]]

\* the failure is raised, but the string was put in the cache before it
Parsed_partial(string, r, st) ==
    IF r.err = "none"
    THEN [exc |-> "none", c |-> r.node,
          st  |-> [string2contract |-> Put(st.string2contract, string, r.node),
                   engine |-> Append(st.engine, string)]]
    ELSE [exc |-> "ContractSyntaxError", c |-> NoNode,
          st  |-> [string2contract |-> Put(st.string2contract, string, Wildcard),
                   engine |-> Append(st.engine, string)]]

\* lines 54-68: the grammar's answer r for a string that was not cached
Parsed(string, r, st) ==
    IF r.err = "none"
    THEN [exc |-> "none", c |-> r.node,
          st  |-> [string2contract |-> Put(st.string2contract, string, r.node),
                   engine |-> Append(st.engine, string)]]
    ELSE \* ParseException and ParseFatalException alike
         [exc |-> "ContractSyntaxError", c |-> NoNode,
          st  |-> [st EXCEPT !.engine = Append(@, string)]]

\* a parser that never looks into the cache
parse_contract_string_uncached(string, st, reg) ==
    Parsed(string, parseString(string, reg), st)

parse_contract_string(string, st, reg) ==
    IF string \in DOMAIN st.string2contract
    THEN [exc |-> "none", c |-> st.string2contract[string], st |-> st]
    ELSE Parsed(string, parseString(string, reg), st)

\* lines 36-39: for x in contracts: C.append(parse_contract_string(x))
RECURSIVE ParseAll(_, _, _, _)

ParseAllNext(contracts, C, p, reg) ==
    IF p.exc # "none" THEN [exc |-> p.exc, C |-> C, st |-> p.st]
    ELSE ParseAll(Tail(contracts), Append(C, p.c), p.st, reg)

ParseAll(contracts, C, st, reg) ==
    IF contracts = <<>> THEN [exc |-> "none", C |-> C, st |-> st]
    ELSE ParseAllNext(contracts, C,
                      parse_contract_string(Head(contracts), st, reg), reg)

\* lines 42-43: for i in range(len(contracts)):
\*                 C[i]._check_contract(context, values[i])
RECURSIVE CheckLoop(_, _, _, _, _, _)

\* a loop that goes on after a violation and raises only for the last pair
CheckLoopNext_goes_on(C, values, i, r, tr, reg) ==
    IF ~r.ok /\ i = Len(C)
    THEN [exc |-> "ContractNotRespected", context |-> r.ctx,
          trace |-> Append(tr, r)]
    ELSE CheckLoop(C, values, i + 1, r.ctx, Append(tr, r), reg)

\* a loop that hands every pair a context of its own
CheckLoopNext_fresh_context(C, values, i, r, tr, reg) ==
    IF ~r.ok
    THEN [exc |-> "ContractNotRespected", context |-> r.ctx,
          trace |-> Append(tr, r)]
    ELSE CheckLoop(C, values, i + 1, Context, Append(tr, r), reg)

CheckLoopNext(C, values, i, r, tr, reg) ==
    IF ~r.ok
    THEN [exc |-> "ContractNotRespected", context |-> r.ctx,
          trace |-> Append(tr, r)]
    ELSE CheckLoop(C, values, i + 1, r.ctx, Append(tr, r), reg)

CheckLoop(C, values, i, context, tr, reg) ==
    IF i > Len(C) THEN [exc |-> "none", context |-> context, trace |-> tr]
    ELSE CheckLoopNext(C, values, i,
                       check_contract(C[i], context, values[i], reg), tr, reg)

\* lines 45: return context
Checked(l, st) ==
    [exc   |-> l.exc,
     val   |-> IF l.exc = "none" THEN l.context ELSE None,
     st    |-> st,
     trace |-> l.trace]

\* a context kept from the previous call instead of a new Context()
CheckParsed_kept_context(p, values, reg) ==
    IF p.exc # "none"
    THEN [exc |-> p.exc, val |-> None, st |-> p.st, trace |-> <<>>]
    ELSE Checked(CheckLoop(p.C, values, 1, held, <<>>, reg), p.st)

\* the contracts parsed so far are checked although a later one failed
CheckParsed_checks_prefix(p, values, reg) ==
    IF p.exc # "none"
    THEN [exc |-> p.exc, val |-> None, st |-> p.st,
          trace |-> CheckLoop(p.C, values, 1, Context, <<>>, reg).trace]
    ELSE Checked(CheckLoop(p.C, values, 1, Context, <<>>, reg), p.st)

\* lines 41-45, with the contracts C already parsed
CheckParsed(p, values, reg) ==
    IF p.exc # "none"
    THEN [exc |-> p.exc, val |-> None, st |-> p.st, trace |-> <<>>]
    ELSE Checked(CheckLoop(p.C, values, 1, Context, <<>>, reg), p.st)

check_contracts(contracts, values, st, reg) ==
    CheckParsed(ParseAll(contracts, <<>>, st, reg), values, reg)

check(contract, object, st, reg) ==
    IF ~IsStr(contract)
    THEN [exc |-> "ValueError", val |-> None, st |-> st, trace |-> <<>>]
    ELSE check_contracts(<<contract[2]>>, <<object>>, st, reg)

\* the verdict of the check passed on as it is
Refuted_agrees(r, st) ==
    [exc   |-> IF r.ok THEN "none" ELSE "ValueError",
     val   |-> None,
     st    |-> st,
     trace |-> <<>>]

\* lines 320-328: context = c.check(value), and the verdict turned round
Refuted(r, st) ==
    [exc   |-> IF r.ok THEN "ValueError" ELSE "none",
     val   |-> None,
     st    |-> st,
     trace |-> <<>>]

FailParsed(p, value, reg) ==
    IF p.exc # "none"
    THEN [exc |-> p.exc, val |-> None, st |-> p.st, trace |-> <<>>]
    ELSE Refuted(check_contract(p.c, Context, value, reg), p.st)

fail(contract, value, st, reg) ==
    FailParsed(parse_contract_string(contract[2], st, reg), value, reg)

\* lines 349-356, after the check of couples itself answered v
CouplesChecked(v, couples, reg) ==
    IF v.exc # "none"
    THEN [exc |-> v.exc, val |-> None, st |-> v.st, trace |-> <<>>]
    ELSE check_contracts([i \in 1..Len(couples[2]) |-> couples[2][i][2][1][2]],
                         [i \in 1..Len(couples[2]) |-> couples[2][i][2][2]],
                         v.st, reg)

check_multiple(couples, st, reg) ==
    CouplesChecked(check(StrV(CouplesContract), couples, st, reg), couples, reg)

can_accept_exactly_one_argument(callable_thing) == callable_thing[3] = 1

Raised(kind, st, reg, stages) ==
    [exc |-> kind, val |-> None, st |-> st, reg |-> reg, steps |-> stages]

\* lines 483-492: q is parse_contract_string(identifier) after the registry
\* was written
SelfChecked(id, bare_contract, q, reg, stages) ==
    IF q.exc # "none" \/ q.c # Extension(id)
    THEN Raised("AssertionError", q.st, reg, stages)
    ELSE [exc |-> "none", val |-> bare_contract, st |-> q.st, reg |-> reg,
          steps |-> stages]

SelfCheck(id, bare_contract, st, reg, stages) ==
    SelfChecked(id, bare_contract, parse_contract_string(id, st, reg), reg,
                Append(stages, "selfcheck"))

\* a redefinition accepted without comparing it with the old entry
Store_accepts(id, bare_contract, st, reg, stages) ==
    IF id \in DOMAIN reg
    THEN SelfCheck(id, bare_contract, st, reg, Append(stages, "compare"))
    ELSE SelfCheck(id, bare_contract, st,
                   Put(reg, id, SeparateContext(bare_contract)),
                   Append(stages, "store"))

\* the bare contract stored and compared, without the SeparateContext
Store_unwrapped(id, bare_contract, st, reg, stages) ==
    IF id \in DOMAIN reg
    THEN IF bare_contract # reg[id]
         THEN Raised("ValueError", st, reg, Append(stages, "compare"))
         ELSE SelfCheck(id, bare_contract, st, reg, Append(stages, "compare"))
    ELSE SelfCheck(id, bare_contract, st, Put(reg, id, bare_contract),
                   Append(stages, "store"))

\* a redefinition that silently replaces the old entry
Store_replaces(id, bare_contract, st, reg, stages) ==
    SelfCheck(id, bare_contract, st,
              Put(reg, id, SeparateContext(bare_contract)),
              Append(stages, IF id \in DOMAIN reg THEN "compare" ELSE "store"))

\* a new entry stored without its private context
Store_shares_context(id, bare_contract, st, reg, stages) ==
    IF id \in DOMAIN reg
    THEN IF SeparateContext(bare_contract) # reg[id]
         THEN Raised("ValueError", st, reg, Append(stages, "compare"))
         ELSE SelfCheck(id, bare_contract, st, reg, Append(stages, "compare"))
    ELSE SelfCheck(id, bare_contract, st, Put(reg, id, bare_contract),
                   Append(stages, "store"))

\* the registry write left out
Store_forgets(id, bare_contract, st, reg, stages) ==
    IF id \in DOMAIN reg
    THEN IF SeparateContext(bare_contract) # reg[id]
         THEN Raised("ValueError", st, reg, Append(stages, "compare"))
         ELSE SelfCheck(id, bare_contract, st, reg, Append(stages, "compare"))
    ELSE SelfCheck(id, bare_contract, st, reg, Append(stages, "store"))

\* lines 468-481: wrap, then compare with the old entry or store a new one
Store(id, bare_contract, st, reg, stages) ==
    IF id \in DOMAIN reg
    THEN IF SeparateContext(bare_contract) # reg[id]
         THEN Raised("ValueError", st, reg, Append(stages, "compare"))
         ELSE SelfCheck(id, bare_contract, st, reg, Append(stages, "compare"))
    ELSE SelfCheck(id, bare_contract, st,
                   Put(reg, id, SeparateContext(bare_contract)),
                   Append(stages, "store"))

\* a condition that does not parse taken as a reference to an extension
\* that will be registered later
ConditionParsed_forward(id, p, reg, stages) ==
    IF p.exc # "none"
    THEN Store(id, Extension(p.st.engine[Len(p.st.engine)]), p.st, reg, stages)
    ELSE Store(id, p.c, p.st, reg, stages)

\* the syntax error of the condition let through as it is
ConditionParsed_leaks(id, p, reg, stages) ==
    IF p.exc # "none" THEN Raised(p.exc, p.st, reg, stages)
    ELSE Store(id, p.c, p.st, reg, stages)

\* lines 452-456: p is parse_contract_string(condition)
ConditionParsed(id, p, reg, stages) ==
    IF p.exc # "none" THEN Raised("ValueError", p.st, reg, stages)
    ELSE Store(id, p.c, p.st, reg, stages)

\* lines 449-466
CheckCondition(id, condition, st, reg, stages) ==
    IF IsStr(condition)
    THEN ConditionParsed(id, parse_contract_string(condition[2], st, reg), reg,
                         Append(stages, "condition"))
    ELSE IF IsCallable(condition)
    THEN IF can_accept_exactly_one_argument(condition)
         THEN Store(id, CheckCallable(condition), st, reg,
                    Append(stages, "arity"))
         ELSE Raised("ValueError", st, reg, Append(stages, "arity"))
    ELSE Raised("ValueError", st, reg, stages)

\* the identifier taken as it comes
CheckIdentifier_unchecked(id, condition, st, reg, stages) ==
    CheckCondition(id, condition, st, reg, Append(stages, "identifier"))

\* lines 439-447
CheckIdentifier(id, condition, st, reg, stages) ==
    IF IsIdentifier(id)
    THEN CheckCondition(id, condition, st, reg, Append(stages, "identifier"))
    ELSE Raised("ValueError", st, reg, Append(stages, "identifier"))

\* the collision with a known expression goes unnoticed
KnownExpression_ignored(id, condition, c, reg) ==
    CheckIdentifier(id, condition, c.st, reg, <<"known">>)

\* lines 431-437: c is parse_contract_string(identifier)
KnownExpression(id, condition, c, reg) ==
    IF c.exc = "none" THEN Raised("ValueError", c.st, reg, <<"known">>)
    ELSE CheckIdentifier(id, condition, c.st, reg, <<"known">>)

new_contract_impl(identifier, condition, st, reg) ==
    IF ~IsStr(identifier) THEN Raised("ValueError", st, reg, <<>>)
    ELSE IF identifier[2] \in DOMAIN reg
    THEN CheckIdentifier(identifier[2], condition, st, reg, <<>>)
    ELSE KnownExpression(identifier[2], condition,
                         parse_contract_string(identifier[2], st, reg), reg)

new_contract(identifier, condition, st, reg) ==
    new_contract_impl(identifier, condition, st, reg)

(***************************************************************************)
(* The decorator.  A function is its signature as getfullargspec gives it: *)
(* [args, varargs, varkw, kwonlyargs], NoName where Python has None.  Only *)
(* contracts given as keyword arguments are modelled; kwargs is the        *)
(* sequence of its <<name, spec>> items.                                   *)
(***************************************************************************)
NoName == ""

T_star == <<"*">>

get_all_arg_names(function) ==
    SelectSeq(function.args \o <<function.varargs, function.varkw>>
                  \o function.kwonlyargs,
              LAMBDA x : x # NoName)

parse_flexible_spec(spec, st, reg) ==
    IF IsStr(spec) THEN parse_contract_string(spec[2], st, reg)
    ELSE [exc |-> "ContractException", c |-> NoNode, st |-> st]

\* lines 197-198: dict([(x, parse_flexible_spec(accepts_dict[x])) ...])
RECURSIVE AcceptsParsed(_, _, _, _)

AcceptsNext(accepts, acc, p, reg) ==
    IF p.exc # "none" THEN [exc |-> p.exc, parsed |-> acc, st |-> p.st]
    ELSE AcceptsParsed(Tail(accepts), Put(acc, Head(accepts)[1], p.c), p.st, reg)

AcceptsParsed(accepts, acc, st, reg) ==
    IF accepts = <<>> THEN [exc |-> "none", parsed |-> acc, st |-> st]
    ELSE AcceptsNext(accepts, acc,
                     parse_flexible_spec(Head(accepts)[2], st, reg), reg)

\* line 199, and the closure the wrapper keeps
ReturnsParsed(function, a, p) ==
    IF p.exc # "none" THEN [exc |-> p.exc, wrapper |-> NoNode, st |-> p.st]
    ELSE [exc     |-> "none",
          wrapper |-> [function        |-> function,
                       all_args        |-> get_all_arg_names(function),
                       accepts_parsed  |-> a.parsed,
                       returns_parsed  |-> p.c],
          st      |-> p.st]

DecorateParsed(function, returns, a, reg) ==
    IF a.exc # "none" THEN [exc |-> a.exc, wrapper |-> NoNode, st |-> a.st]
    ELSE ReturnsParsed(function, a, parse_flexible_spec(returns, a.st, reg))

\* kwargs without 'returns'
Accepts(kwargs) == SelectSeq(kwargs, LAMBDA kv : kv[1] # "returns")

\* kwargs.pop('returns', None), and '*' if it is None
ReturnsSpec(kwargs) ==
    IF \E i \in 1..Len(kwargs) : kwargs[i][1] = "returns"
    THEN kwargs[CHOOSE i \in 1..Len(kwargs) : kwargs[i][1] = "returns"][2]
    ELSE StrV(T_star)

contracts_decorate(function, kwargs, st, reg) ==
    IF \E i \in 1..Len(Accepts(kwargs)) :
           \A j \in 1..Len(get_all_arg_names(function)) :
               get_all_arg_names(function)[j] # Accepts(kwargs)[i][1]
    THEN [exc |-> "ContractException", wrapper |-> NoNode, st |-> st]
    ELSE DecorateParsed(function, ReturnsSpec(kwargs),
                        AcceptsParsed(Accepts(kwargs), EmptyMap, st, reg), reg)

\* called with parameters: wrap(function)
contracts(function, kwargs, st, reg) ==
    contracts_decorate(function, kwargs, st, reg)

\* lines 212-214: the verdict r on the result, and return result
ReturnChecked(out, r, tr, stages) ==
    [exc   |-> IF r.ok THEN "none" ELSE "ContractNotRespected",
     val   |-> IF r.ok THEN out ELSE None,
     trace |-> Append(tr, r),
     steps |-> stages]

\* the return contract checked in a context of its own
CallBody_fresh_context(w, out, context, tr, stages, reg) ==
    ReturnChecked(out, check_contract(w.returns_parsed, Context, out, reg), tr,
                  stages \o <<"body", "returns">>)

\* lines 210-212: result = function(*args, **kwargs), the body returning
\* out, then returns_parsed._check_contract(context, result)
CallBody(w, out, context, tr, stages, reg) ==
    ReturnChecked(out, check_contract(w.returns_parsed, context, out, reg), tr,
                  stages \o <<"body", "returns">>)

\* lines 205-208: for arg in all_args: ...
RECURSIVE ArgsLoop(_, _, _, _, _, _, _, _)

\* the body is called although an argument violated its contract
ArgsNext_goes_on(w, bound, out, i, r, tr, stages, reg) ==
    ArgsLoop(w, bound, out, i + 1, r.ctx, Append(tr, r), stages, reg)

ArgsNext(w, bound, out, i, r, tr, stages, reg) ==
    IF ~r.ok
    THEN [exc |-> "ContractNotRespected", val |-> None,
          trace |-> Append(tr, r), steps |-> stages]
    ELSE ArgsLoop(w, bound, out, i + 1, r.ctx, Append(tr, r), stages, reg)

ArgsLoop(w, bound, out, i, context, tr, stages, reg) ==
    IF i > Len(w.all_args) THEN CallBody(w, out, context, tr, stages, reg)
    ELSE IF w.all_args[i] \in DOMAIN w.accepts_parsed
    THEN ArgsNext(w, bound, out, i,
                  check_contract(w.accepts_parsed[w.all_args[i]], context,
                                 bound[w.all_args[i]], reg),
                  tr, Append(stages, w.all_args[i]), reg)
    ELSE ArgsLoop(w, bound, out, i + 1, context, tr, stages, reg)

\* lines 202-214; bound is getcallargs(function, *args, **kwargs)
wrapper(w, bound, out, reg) ==
    ArgsLoop(w, bound, out, 1, Context, <<>>, <<>>, reg)

(***************************************************************************)
(* The inputs                                                              *)
(***************************************************************************)
T_int     == <<"i", "n", "t">>
T_pos     == <<"p", "o", "s">>
T_nat     == <<"n", "a", "t">>
T_1b      == <<"1", "b">>
T_listN   == <<"l", "i", "s", "t", "[", "N", "]">>
T_gt0     == <<"i", "n", "t", ",", ">", "0">>
T_empty   == <<>>
T_trail   == <<"i", "n", "t", ")">>
T_open    == <<"l", "i", "s", "t", "(", "i", "n", "t">>
T_listpos == <<"l", "i", "s", "t", "(", "p", "o", "s", ")">>

Texts == {T_pos, T_nat, T_1b, T_listN, T_gt0, T_empty, T_trail, T_open,
          T_listpos}

\* the contracts handed to check and fail
CheckTexts == {StrV(T_listN), StrV(T_gt0), StrV(T_pos), StrV(T_listpos),
               StrV(T_trail)}

ListOf(n) == ListV([i \in 1..n |-> IntV(i)])

Values == {IntV(5), IntV(0 - 5), ListOf(3), ListOf(4)}

Identifiers == {StrV(T_pos), StrV(T_nat), StrV(T_1b), StrV(T_int), StrV(T_gt0),
                IntV(5)}

Conditions == {StrV(T_gt0), StrV(T_listN), StrV(T_trail), StrV(T_pos),
               StrV(T_nat), FunV("is_list", 1), FunV("two", 2), IntV(5)}

Pairs == {TupleV(<<StrV(T_listN), ListOf(3)>>),
          TupleV(<<StrV(T_listN), ListOf(4)>>),
          TupleV(<<StrV(T_pos), ListOf(3)>>),
          TupleV(<<StrV(T_pos), ListOf(4)>>),
          TupleV(<<StrV(T_trail), ListOf(3)>>)}

RECURSIVE SeqsUpTo(_, _)
SeqsUpTo(S, n) ==
    IF n = 0 THEN {<<>>}
    ELSE LET shorter == SeqsUpTo(S, n - 1)
         IN  shorter \cup {Append(q, x) : q \in shorter, x \in S}

Couples == {ListV(q) : q \in SeqsUpTo(Pairs, MaxPairs)}
           \cup {ListV(<<TupleV(<<IntV(5), ListOf(3)>>)>>)}

\* def f(a, b)
F_ab == [args |-> <<"a", "b">>, varargs |-> NoName, varkw |-> NoName,
         kwonlyargs |-> <<>>]

\* def g(a, *, k, **kw)
F_kw == [args |-> <<"a">>, varargs |-> NoName, varkw |-> "kw",
         kwonlyargs |-> <<"k">>]

\* the uses of the decorator: @contracts(**kwargs) on a function
Decorations ==
    [f_N     |-> [function |-> F_ab,
                  kwargs   |-> << <<"a", StrV(T_gt0)>>, <<"b", StrV(T_listN)>>,
                                  <<"returns", StrV(T_listN)>> >>],
     f_pos   |-> [function |-> F_ab,
                  kwargs   |-> << <<"b", StrV(T_pos)>>,
                                  <<"returns", StrV(T_listN)>> >>],
     g_kw    |-> [function |-> F_kw,
                  kwargs   |-> << <<"kw", StrV(T_star)>>, <<"k", StrV(T_gt0)>> >>],
     g_N     |-> [function |-> F_kw,
                  kwargs   |-> << <<"k", StrV(T_gt0)>>, <<"kw", StrV(T_listN)>> >>],
     f_c     |-> [function |-> F_ab,
                  kwargs   |-> << <<"c", StrV(T_gt0)>> >>],
     f_trail |-> [function |-> F_ab,
                  kwargs   |-> << <<"a", StrV(T_gt0)>>, <<"b", StrV(T_trail)>> >>],
     f_5     |-> [function |-> F_ab,
                  kwargs   |-> << <<"a", IntV(5)>> >>]]

\* what getcallargs binds for the calls made, and what the body returns
Bound(function) ==
    IF function = F_ab
    THEN {[a |-> x, b |-> y] : x \in {IntV(5), IntV(0 - 5)},
                               y \in {ListOf(3), ListOf(4)}}
    ELSE {[a |-> IntV(5), k |-> x, kw |-> DictV(<<>>)] :
              x \in {IntV(5), IntV(0 - 5)}}

Outs(function) ==
    IF function = F_ab THEN {ListOf(3), ListOf(4)} ELSE {IntV(5)}

(***************************************************************************)
(* The operations.  A call is made while no call is running; Return hands  *)
(* control back to the caller, who keeps what the call returned.           *)
(***************************************************************************)
Storage == [string2contract |-> string2contract, engine |-> <<>>]

\* the threads that call new_contract
Threads == {1, 2}

\* a thread that has not called yet
NotCalled ==
    [pc |-> "idle", identifier |-> None, condition |-> None,
     bare_contract |-> NoNode, exc |-> "none"]

Tables ==
    [string2contract |-> string2contract, registrar |-> registrar,
     held |-> held]

Idle == call = <<"idle">>

Init ==
    /\ string2contract = EmptyMap
    /\ registrar = EmptyMap
    /\ call = <<"idle">>
    /\ exc = "none"
    /\ result = None
    /\ engine = <<>>
    /\ trace = <<>>
    /\ steps = <<>>
    /\ entry = [string2contract |-> EmptyMap, registrar |-> EmptyMap,
                held |-> Context]
    /\ held = Context
    /\ decorated = EmptyMap
    /\ threads = [locals |-> [t \in Threads |-> NotCalled], writes |-> <<>>,
                  overlapped |-> FALSE]

\* the state after a call that answered r and left the registry as reg
Returns(name, r, reg, stages) ==
    /\ Idle
    /\ call' = name
    /\ exc' = r.exc
    /\ result' = r.val
    /\ string2contract' = r.st.string2contract
    /\ engine' = r.st.engine
    /\ registrar' = reg
    /\ trace' = r.trace
    /\ steps' = stages
    /\ entry' = Tables
    /\ held' = IF name[1] \in {"check", "check_multiple"} /\ r.exc = "none"
               THEN r.val ELSE held
    /\ UNCHANGED <<decorated, threads>>

ParseReturns(p) ==
    [exc   |-> p.exc,
     val   |-> IF p.exc = "none" THEN p.c ELSE None,
     st    |-> p.st,
     trace |-> <<>>]

Parse(t) ==
    Returns(<<"parse", t>>,
            ParseReturns(parse_contract_string(t, Storage, registrar)),
            registrar, <<>>)

CheckOne(c, v) ==
    Returns(<<"check", c, v>>, check(c, v, Storage, registrar), registrar, <<>>)

CheckMany(couples) ==
    Returns(<<"check_multiple", couples>>,
            check_multiple(couples, Storage, registrar), registrar, <<>>)

Fail(c, v) ==
    Returns(<<"fail", c, v>>, fail(c, v, Storage, registrar), registrar, <<>>)

RegisterReturns(name, r) ==
    Returns(name, [exc |-> r.exc, val |-> r.val, st |-> r.st, trace |-> <<>>],
            r.reg, r.steps)

Register(identifier, condition) ==
    RegisterReturns(<<"new_contract", identifier, condition>>,
                    new_contract(identifier, condition, Storage, registrar))

Return ==
    /\ ~Idle
    /\ call' = <<"idle">>
    /\ exc' = "none"
    /\ engine' = <<>>
    /\ trace' = <<>>
    /\ steps' = <<>>
    /\ result' = None
    /\ entry' = Tables
    /\ UNCHANGED <<string2contract, registrar, held, decorated, threads>>

\* the state after contracts answered r for decoration d
Decorates(d, r) ==
    /\ Idle
    /\ call' = <<"contracts", d>>
    /\ exc' = r.exc
    /\ result' = None
    /\ string2contract' = r.st.string2contract
    /\ engine' = r.st.engine
    /\ decorated' = IF r.exc = "none" THEN Put(decorated, d, r.wrapper)
                    ELSE decorated
    /\ trace' = <<>>
    /\ steps' = <<>>
    /\ entry' = Tables
    /\ UNCHANGED <<registrar, held, threads>>

Decorate(d) ==
    Decorates(d, contracts(Decorations[d].function, Decorations[d].kwargs,
                           Storage, registrar))

\* the state after a call of a decorated function answered r
Invoked(name, r) ==
    /\ Idle
    /\ call' = name
    /\ exc' = r.exc
    /\ result' = r.val
    /\ trace' = r.trace
    /\ steps' = r.steps
    /\ engine' = <<>>
    /\ entry' = Tables
    /\ UNCHANGED <<string2contract, registrar, held, decorated, threads>>

Invoke(d, bound, out) ==
    /\ d \in DOMAIN decorated
    /\ Invoked(<<"call", d, bound, out>>,
               wrapper(decorated[d], bound, out, registrar))

Next ==
    \/ \E t \in Texts : Parse(t)
    \/ \E c \in CheckTexts \cup {IntV(5)}, v \in Values : CheckOne(c, v)
    \/ \E couples \in Couples : CheckMany(couples)
    \/ \E c \in CheckTexts, v \in Values \ {ListOf(4)} : Fail(c, v)
    \/ \E identifier \in Identifiers, condition \in Conditions :
           Register(identifier, condition)
    \/ Return

Spec == Init /\ [][Next]_vars

(***************************************************************************)
(* new_contract_impl run by threads.  Each action is a stretch of the      *)
(* function between two accesses to Extension.registrar; a thread may be   *)
(* preempted between any two of them.  parse_contract_string is taken as   *)
(* one step.                                                               *)
(***************************************************************************)
Running(t) == threads.locals[t].pc \notin {"idle", "done"}

\* thread t goes on to pc
Goes(t, pc) == [threads EXCEPT !.locals[t].pc = pc]

\* thread t leaves the call raising kind
Raises(t, kind) ==
    [threads EXCEPT !.locals[t].pc = "done", !.locals[t].exc = kind]

OnlyThreads ==
    UNCHANGED <<string2contract, registrar, call, exc, result, engine, trace,
                steps, entry, held, decorated>>

\* line 415: the call
Begin(t, identifier, condition) ==
    /\ threads.locals[t].pc = "idle"
    /\ threads' = [threads EXCEPT
                      !.locals[t] = [pc |-> "membership",
                                     identifier |-> identifier,
                                     condition |-> condition,
                                     bare_contract |-> NoNode,
                                     exc |-> "none"],
                      !.overlapped = @ \/ \E u \in Threads \ {t} : Running(u)]
    /\ OnlyThreads

\* lines 417-428: isinstance, and identifier in Extension.registrar
Membership(t) ==
    /\ threads.locals[t].pc = "membership"
    /\ threads' =
           IF ~IsStr(threads.locals[t].identifier) THEN Raises(t, "ValueError")
           ELSE IF threads.locals[t].identifier[2] \in DOMAIN registrar
           THEN Goes(t, "identifier")
           ELSE Goes(t, "known")
    /\ OnlyThreads

\* lines 431-437: c is parse_contract_string(identifier)
KnownParsed(t, c) ==
    /\ string2contract' = c.st.string2contract
    /\ threads' = IF c.exc = "none" THEN Raises(t, "ValueError")
                  ELSE Goes(t, "identifier")
    /\ UNCHANGED <<registrar, call, exc, result, engine, trace, steps, entry,
                   held, decorated>>

Known(t) ==
    /\ threads.locals[t].pc = "known"
    /\ KnownParsed(t, parse_contract_string(threads.locals[t].identifier[2],
                                            Storage, registrar))

\* lines 439-447
Identifier(t) ==
    /\ threads.locals[t].pc = "identifier"
    /\ threads' = IF IsIdentifier(threads.locals[t].identifier[2])
                  THEN Goes(t, "condition")
                  ELSE Raises(t, "ValueError")
    /\ OnlyThreads

\* lines 452-456: p is parse_contract_string(condition)
ConditionStepParsed(t, p) ==
    /\ string2contract' = p.st.string2contract
    /\ threads' = IF p.exc # "none" THEN Raises(t, "ValueError")
                  ELSE [threads EXCEPT !.locals[t].pc = "stored",
                                       !.locals[t].bare_contract = p.c]
    /\ UNCHANGED <<registrar, call, exc, result, engine, trace, steps, entry,
                   held, decorated>>

\* lines 457-466: a callable, or neither
ConditionStepOther(t) ==
    /\ threads' =
           IF /\ IsCallable(threads.locals[t].condition)
              /\ can_accept_exactly_one_argument(threads.locals[t].condition)
           THEN [threads EXCEPT
                    !.locals[t].pc = "stored",
                    !.locals[t].bare_contract =
                        CheckCallable(threads.locals[t].condition)]
           ELSE Raises(t, "ValueError")
    /\ OnlyThreads

\* lines 449-469
Condition(t) ==
    /\ threads.locals[t].pc = "condition"
    /\ IF IsStr(threads.locals[t].condition)
       THEN ConditionStepParsed(t,
                parse_contract_string(threads.locals[t].condition[2], Storage,
                                      registrar))
       ELSE ConditionStepOther(t)

\* the test left out: the entry is written whatever the registry holds
StoredTest_blind(id, reg) == "write"

\* line 471: if identifier in Extension.registrar
StoredTest(id, reg) == IF id \in DOMAIN reg THEN "compare" ELSE "write"

Stored(t) ==
    /\ threads.locals[t].pc = "stored"
    /\ threads' = Goes(t, StoredTest(threads.locals[t].identifier[2], registrar))
    /\ OnlyThreads

\* lines 472-479
CompareOld(t) ==
    /\ threads.locals[t].pc = "compare"
    /\ threads' =
           IF SeparateContext(threads.locals[t].bare_contract)
                  # registrar[threads.locals[t].identifier[2]]
           THEN Raises(t, "ValueError")
           ELSE Goes(t, "selfcheck")
    /\ OnlyThreads

\* line 481: Extension.registrar[identifier] = contract
Write(t) ==
    /\ threads.locals[t].pc = "write"
    /\ registrar' = Put(registrar, threads.locals[t].identifier[2],
                        SeparateContext(threads.locals[t].bare_contract))
    /\ threads' = [threads EXCEPT !.locals[t].pc = "selfcheck",
                                  !.writes = Append(@, t)]
    /\ UNCHANGED <<string2contract, call, exc, result, engine, trace, steps,
                   entry, held, decorated>>

\* lines 483-492: q is parse_contract_string(identifier)
SelfCheckParsed(t, q) ==
    /\ string2contract' = q.st.string2contract
    /\ threads' =
           IF q.exc # "none" \/ q.c # Extension(threads.locals[t].identifier[2])
           THEN Raises(t, "AssertionError")
           ELSE Goes(t, "done")
    /\ UNCHANGED <<registrar, call, exc, result, engine, trace, steps, entry,
                   held, decorated>>

SelfCheckStep(t) ==
    /\ threads.locals[t].pc = "selfcheck"
    /\ SelfCheckParsed(t, parse_contract_string(threads.locals[t].identifier[2],
                                                Storage, registrar))

NextThreads ==
    \E t \in Threads :
        \/ \E identifier \in {StrV(T_pos), StrV(T_int), StrV(T_1b)},
              condition \in {StrV(T_gt0), StrV(T_listN), StrV(T_trail),
                             FunV("two", 2)} :
               Begin(t, identifier, condition)
        \/ Membership(t)
        \/ Known(t)
        \/ Identifier(t)
        \/ Condition(t)
        \/ Stored(t)
        \/ CompareOld(t)
        \/ Write(t)
        \/ SelfCheckStep(t)

SpecThreads == Init /\ [][NextThreads]_vars

\* the program as the users of the decorator drive it
NextDecorated ==
    \/ \E condition \in {StrV(T_gt0), StrV(T_listN), FunV("is_list", 1)} :
           Register(StrV(T_pos), condition)
    \/ \E d \in DOMAIN Decorations : Decorate(d)
    \/ \E d \in DOMAIN Decorations :
           \E bound \in Bound(Decorations[d].function),
              out \in Outs(Decorations[d].function) : Invoke(d, bound, out)
    \/ Return

SpecDecorated == Init /\ [][NextDecorated]_vars
(***************************************************************************)
(* Properties.  They read the last call (call, exc, result, engine,       *)
(* trace, steps) and the tables as the call found them (entry).            *)
(***************************************************************************)
\* the node a definition stands for under registry reg; NoNode if none
DefinitionNode(condition, reg) ==
    IF IsStr(condition) THEN parseString(condition[2], reg).node
    ELSE IF IsCallable(condition) /\ can_accept_exactly_one_argument(condition)
    THEN CheckCallable(condition)
    ELSE NoNode

\* new_contract was called for an identifier that was registered already
Redefines ==
    /\ call[1] = "new_contract"
    /\ IsStr(call[2])
    /\ call[2][2] \in DOMAIN entry.registrar

SameDefinition ==
    /\ DefinitionNode(call[3], entry.registrar) # NoNode
    /\ SeparateContext(DefinitionNode(call[3], entry.registrar))
           = entry.registrar[call[2][2]]

\* C1: for an identifier that is registered already, a definition
\* structurally equal to the stored one is accepted, a different one is
\* refused with ValueError, and either way the registry stays as it was.
C1_RedefinitionPolicy ==
    Redefines =>
        /\ registrar = entry.registrar
        /\ SameDefinition => exc = "none"
        /\ ~SameDefinition => exc = "ValueError"

C1_Witness ==
    /\ Redefines
    /\ DefinitionNode(call[3], entry.registrar) # NoNode
    /\ ~SameDefinition
    /\ exc = "ValueError"
    /\ steps[Len(steps)] = "compare"

\* the (text, value) pairs a check or check_multiple call was given
CallPairs ==
    IF call[1] = "check" THEN << <<call[2][2], call[3]>> >>
    ELSE [i \in 1..Len(call[2][2]) |->
              <<call[2][2][i][2][1][2], call[2][2][i][2][2]>>]

\* the couples satisfy list[>0](tuple(str, *))
ValidCouples ==
    /\ Len(call[2][2]) > 0
    /\ \A i \in 1..Len(call[2][2]) : IsStr(call[2][2][i][2][1])

\* what pair j binds when it is checked on its own
Alone(j) ==
    check_contract(string2contract[CallPairs[j][1]], Context, CallPairs[j][2],
                   registrar)

\* C2: within one check_multiple call a binding, once made, is never
\* replaced, and a later pair that would bind the same identifier to an
\* unequal value fails with ContractNotRespected.
C2_BindOnce ==
    call[1] = "check_multiple" =>
        /\ \A i \in 1..Len(trace), j \in 1..Len(trace) :
               i < j => \A x \in DOMAIN trace[i].ctx :
                            /\ x \in DOMAIN trace[j].ctx
                            /\ trace[j].ctx[x] = trace[i].ctx[x]
        /\ \A j \in 2..Len(trace) :
               (/\ Alone(j).ok
                /\ \E x \in DOMAIN Alone(j).ctx \cap DOMAIN trace[j - 1].ctx :
                       Alone(j).ctx[x] # trace[j - 1].ctx[x])
               => ~trace[j].ok /\ exc = "ContractNotRespected"

C2_Witness ==
    /\ call[1] = "check_multiple"
    /\ Len(trace) = 2
    /\ trace[1].ok
    /\ "N" \in DOMAIN trace[1].ctx
    /\ Alone(2).ok
    /\ Alone(2).ctx["N"] # trace[1].ctx["N"]
    /\ exc = "ContractNotRespected"

\* the context pair i was checked in
ContextBefore(i) == IF i = 1 THEN Context ELSE trace[i - 1].ctx

\* C3: check_multiple checks the pairs in list order, raises
\* ContractNotRespected at the first pair that violates, checks no pair
\* after it, and otherwise returns the context with every binding made.
C3_FailFast ==
    (call[1] = "check_multiple" /\ ValidCouples /\ exc # "ContractSyntaxError")
    =>  /\ Len(trace) <= Len(CallPairs)
        /\ \A i \in 1..Len(trace) :
               /\ trace[i] = check_contract(string2contract[CallPairs[i][1]],
                                            ContextBefore(i), CallPairs[i][2],
                                            registrar)
               /\ i < Len(trace) => trace[i].ok
        /\ exc \in {"none", "ContractNotRespected"}
        /\ exc = "ContractNotRespected" => ~trace[Len(trace)].ok
        /\ exc = "none" =>
               /\ Len(trace) = Len(CallPairs)
               /\ trace[Len(trace)].ok
               /\ result = trace[Len(trace)].ctx
               /\ \A i \in 1..Len(trace) : \A x \in DOMAIN trace[i].ctx :
                      x \in DOMAIN result /\ result[x] = trace[i].ctx[x]

C3_Witness ==
    /\ call[1] = "check_multiple"
    /\ Len(CallPairs) = 2
    /\ Len(trace) = 1
    /\ ~trace[1].ok
    /\ exc = "ContractNotRespected"
    /\ CallPairs[2][1] \in DOMAIN string2contract

\* new_contract returned normally
Registered == call[1] = "new_contract" /\ exc = "none"

\* parse(t), were it called now
ParseNow(t) == parse_contract_string(t, Storage, registrar)

\* parse(defn) of the definition just registered, or its wrapped predicate
ParsedDefinition ==
    IF IsStr(call[3]) THEN ParseNow(call[3][2]).c ELSE CheckCallable(call[3])

\* C4 as the spec states it: after register(id, defn), parse(id) is
\* structurally equal to the isolation-wrapped parse(defn).
C4_Original ==
    Registered =>
        /\ ParseNow(call[2][2]).exc = "none"
        /\ ParseNow(call[2][2]).c = SeparateContext(ParsedDefinition)

\* C4, amended: after register(id, defn), parse(id) is the Extension
\* reference Extension(id), and the registry entry that reference resolves
\* to is structurally equal to the isolation-wrapped parse(defn).
C4_RoundTrip ==
    Registered =>
        /\ ParseNow(call[2][2]).exc = "none"
        /\ ParseNow(call[2][2]).c = Extension(call[2][2])
        /\ registrar[call[2][2]] = SeparateContext(ParsedDefinition)

C4_Witness ==
    /\ Registered
    /\ IsStr(call[3])
    /\ call[2][2] \notin DOMAIN entry.registrar
    /\ string2contract[call[2][2]] = Extension(call[2][2])
    /\ registrar[call[2][2]] = SeparateContext(result)

\* C5: a text that is in the cache stays there with the node it has, is
\* never handed to the grammar engine again, and parse answers with the
\* cached node, whatever calls came in between.
C5_IdempotentParse ==
    /\ \A t \in DOMAIN entry.string2contract :
           /\ t \in DOMAIN string2contract
           /\ string2contract[t] = entry.string2contract[t]
           /\ \A k \in 1..Len(engine) : engine[k] # t
    /\ (call[1] = "parse" /\ call[2] \in DOMAIN entry.string2contract)
       => exc = "none" /\ result = entry.string2contract[call[2]]

C5_Witness ==
    /\ call[1] = "parse"
    /\ call[2] \in DOMAIN entry.string2contract
    /\ exc = "none"
    /\ result = string2contract[call[2]]
    /\ engine = <<>>

Keywords == {KW_int, KW_str, KW_list, KW_tuple}

\* the identifiers a text mentions
Mentioned(t) ==
    {tok \in {Tokenize(t)[k] : k \in 1..Len(Tokenize(t))} :
        IsIdentifier(tok) /\ ~IsVariable(tok) /\ tok \notin Keywords}

\* the text is a contract once every identifier it mentions is registered
WellFormed(t) ==
    parseString(t, [id \in Mentioned(t) |-> Wildcard]).err = "none"

\* parse was called with a text that mentions an unregistered identifier
ParsesUnregistered ==
    /\ call[1] = "parse"
    /\ WellFormed(call[2])
    /\ ~(Mentioned(call[2]) \subseteq DOMAIN entry.registrar)

\* C6 as the spec states it: parse succeeds for a text that mentions an
\* identifier that is not registered yet.
C6_Original == ParsesUnregistered => exc = "none"

\* C6, amended: extension references are resolved when the text is parsed.
\* parse of a text that mentions an unregistered identifier raises
\* ContractSyntaxError and caches nothing; once the identifiers are
\* registered parse succeeds, and a check of a registered identifier has
\* the outcome of its registered definition.
C6_ParseTimeResolution ==
    /\ ParsesUnregistered =>
           exc = "ContractSyntaxError" /\ call[2] \notin DOMAIN string2contract
    /\ (/\ call[1] = "parse"
        /\ WellFormed(call[2])
        /\ Mentioned(call[2]) \subseteq DOMAIN entry.registrar)
       => exc = "none" /\ call[2] \in DOMAIN string2contract
    /\ (/\ call[1] = "check"
        /\ IsStr(call[2])
        /\ call[2][2] \in DOMAIN registrar)
       => /\ exc \in {"none", "ContractNotRespected"}
          /\ exc = "none" <=>
                 check_contract(registrar[call[2][2]], Context, call[3],
                                registrar).ok

C6_Witness ==
    /\ call[1] = "parse"
    /\ WellFormed(call[2])
    /\ Mentioned(call[2]) # {}
    /\ Mentioned(call[2]) \subseteq DOMAIN entry.registrar
    /\ engine = <<call[2]>>
    /\ exc = "none"

\* new_contract was called with something that is no legal identifier
BadIdentifier ==
    /\ call[1] = "new_contract"
    /\ ~IsStr(call[2]) \/ ~IsIdentifier(call[2][2])

\* C7: new_contract with an illegal identifier raises ValueError before
\* the definition is touched: the definition is not parsed, not cached and
\* not inspected for its arity, and the registry is unchanged.  The only
\* text the call parses, and the only one it can add to the cache, is the
\* identifier itself.
C7_BadIdentifier ==
    BadIdentifier =>
        /\ exc = "ValueError"
        /\ registrar = entry.registrar
        /\ \A k \in 1..Len(steps) : steps[k] \in {"known", "identifier"}
        /\ \A k \in 1..Len(engine) : engine[k] = call[2][2]
        /\ \A t \in DOMAIN string2contract :
               t \in DOMAIN entry.string2contract \/ t = call[2][2]

C7_Witness ==
    /\ BadIdentifier
    /\ IsStr(call[2])
    /\ IsStr(call[3])
    /\ parseString(call[3][2], registrar).err = "none"
    /\ call[3][2] \notin DOMAIN string2contract
    /\ steps = <<"known", "identifier">>
    /\ exc = "ValueError"

\* C8: new_contract raises ValueError when the identifier is not a
\* registered extension and parses as a contract expression; for a
\* registered identifier that test is skipped and the call goes on to the
\* comparison with the stored definition.
C8_BuiltinCollision ==
    (call[1] = "new_contract" /\ IsStr(call[2])) =>
        /\ (/\ call[2][2] \notin DOMAIN entry.registrar
            /\ parseString(call[2][2], entry.registrar).err = "none")
           => /\ exc = "ValueError"
              /\ steps = <<"known">>
              /\ registrar = entry.registrar
        /\ call[2][2] \in DOMAIN entry.registrar
           => /\ steps[1] = "identifier"
              /\ \A k \in 1..Len(steps) : steps[k] \notin {"known", "store"}
              /\ exc = "none" => steps[Len(steps) - 1] = "compare"

C8_Witness ==
    /\ call[1] = "new_contract"
    /\ IsStr(call[2])
    /\ IsIdentifier(call[2][2])
    /\ call[2][2] \in Keywords
    /\ call[2][2] \notin DOMAIN entry.registrar
    /\ IsStr(call[3])
    /\ parseString(call[3][2], registrar).err = "none"
    /\ exc = "ValueError"

\* C9: no call removes or replaces a registry entry; parse, check,
\* check_multiple and fail leave the registry alone; a new_contract that
\* raises leaves it alone; a new_contract that returns adds at most the
\* entry of its identifier.
C9_AppendOnly ==
    /\ \A id \in DOMAIN entry.registrar :
           id \in DOMAIN registrar /\ registrar[id] = entry.registrar[id]
    /\ call[1] # "new_contract" => registrar = entry.registrar
    /\ exc # "none" => registrar = entry.registrar
    /\ Registered =>
           DOMAIN registrar \subseteq DOMAIN entry.registrar \cup {call[2][2]}

C9_Witness ==
    /\ Registered
    /\ DOMAIN entry.registrar # {}
    /\ call[2][2] \notin DOMAIN entry.registrar
    /\ DOMAIN registrar = DOMAIN entry.registrar \cup {call[2][2]}
    /\ \A id \in DOMAIN entry.registrar : registrar[id] = entry.registrar[id]

\* C10: every check and check_multiple call starts from an empty context:
\* its first pair is checked against no bindings, a check of a single pair
\* succeeds exactly when the value satisfies the contract on its own, and
\* the context returned holds the bindings of this call only.
C10_FreshContext ==
    (call[1] \in {"check", "check_multiple"} /\ trace # <<>>) =>
        /\ trace[1] = Alone(1)
        /\ call[1] = "check" =>
               /\ exc = "none" <=> Alone(1).ok
               /\ exc = "none" => result = Alone(1).ctx

C10_Witness ==
    /\ call[1] = "check"
    /\ exc = "none"
    /\ "N" \in DOMAIN entry.held
    /\ "N" \in DOMAIN result
    /\ result["N"] # entry.held["N"]

\* check(contract, value), had it been called instead of this call
CheckNow ==
    check(call[2], call[3],
          [string2contract |-> entry.string2contract, engine |-> <<>>],
          registrar)

\* C11: fail is the negation of check: in the same registry state
\* fail(c, v) returns silently exactly when check(c, v) raises
\* ContractNotRespected, raises ValueError exactly when check(c, v)
\* succeeds, and lets the ContractSyntaxError of an unparseable c through.
C11_FailNegatesCheck ==
    call[1] = "fail" =>
        /\ exc \in {"none", "ValueError", "ContractSyntaxError"}
        /\ exc = "none" <=> CheckNow.exc = "ContractNotRespected"
        /\ exc = "ValueError" <=> CheckNow.exc = "none"
        /\ exc = "ContractSyntaxError" <=> CheckNow.exc = "ContractSyntaxError"
        /\ string2contract = CheckNow.st.string2contract

C11_Witness ==
    /\ call[1] = "fail"
    /\ exc = "ValueError"
    /\ CheckNow.exc = "none"
    /\ CheckNow.val # Context

\* parse was called with a text the grammar refuses
ParseFails ==
    /\ call[1] = "parse"
    /\ call[2] \notin DOMAIN entry.string2contract
    /\ parseString(call[2], registrar).err # "none"

\* C12: a parse that fails raises ContractSyntaxError, returns no node and
\* leaves the cache as it was, whether the failure is an empty text,
\* trailing input or a fatal grammar error; the cache holds only texts
\* that parse completely, each with the node of the whole text.
C12_NoPartialParse ==
    /\ ParseFails =>
           /\ exc = "ContractSyntaxError"
           /\ result = None
           /\ string2contract = entry.string2contract
    /\ \A t \in DOMAIN string2contract :
           /\ parseString(t, registrar).err = "none"
           /\ string2contract[t] = parseString(t, registrar).node

C12_Witness ==
    /\ ParseFails
    /\ parseString(call[2], registrar).err = "ParseFatalException"
    /\ DOMAIN string2contract # {}
    /\ exc = "ContractSyntaxError"

\* the definition is a string that does not parse
UnparseableDefinition ==
    /\ IsStr(call[3])
    /\ parseString(call[3][2], entry.registrar).err # "none"

\* the definition is a callable of the wrong arity
BadArity == IsCallable(call[3]) /\ ~can_accept_exactly_one_argument(call[3])

\* C13: every rejection by new_contract is a ValueError raised by the call
\* itself: a bad identifier, a collision with a known expression, a
\* definition that does not parse, a callable of the wrong arity, a
\* definition that is neither, a conflicting redefinition.  No
\* ContractSyntaxError or ContractNotRespected leaves the call, and a
\* rejected call stores nothing.
C13_ErrorKinds ==
    call[1] = "new_contract" =>
        /\ exc \in {"none", "ValueError"}
        /\ BadIdentifier => exc = "ValueError"
        /\ UnparseableDefinition => exc = "ValueError"
        /\ BadArity => exc = "ValueError"
        /\ (~IsStr(call[3]) /\ ~IsCallable(call[3])) => exc = "ValueError"
        /\ (Redefines /\ ~SameDefinition) => exc = "ValueError"
        /\ (/\ IsStr(call[2])
            /\ call[2][2] \notin DOMAIN entry.registrar
            /\ parseString(call[2][2], entry.registrar).err = "none")
           => exc = "ValueError"
        /\ exc = "ValueError" => registrar = entry.registrar

C13_Witness ==
    /\ call[1] = "new_contract"
    /\ ~BadIdentifier
    /\ call[2][2] \notin DOMAIN entry.registrar
    /\ UnparseableDefinition
    /\ steps[Len(steps)] = "condition"
    /\ exc = "ValueError"

\* pair i of the call names a registered extension
NamesExtension(i) == string2contract[CallPairs[i][1]][1] = "Extension"

\* C14: the registry holds every definition inside a SeparateContext, so
\* the check of a pair that names an extension leaves the shared context
\* as it found it: what the definition binds neither reaches the context
\* the call returns nor constrains the other pairs.
C14_Isolated ==
    /\ \A id \in DOMAIN registrar : registrar[id][1] = "SeparateContext"
    /\ (call[1] \in {"check", "check_multiple"} /\ trace # <<>>) =>
           \A i \in 1..Len(trace) :
               NamesExtension(i) => trace[i].ctx = ContextBefore(i)

C14_Witness ==
    /\ call[1] = "check_multiple"
    /\ Len(trace) = 2
    /\ NamesExtension(1) /\ NamesExtension(2)
    /\ CallPairs[1][1] = CallPairs[2][1]
    /\ registrar[CallPairs[1][1]] = SeparateContext(List(Variable("N"), NoNode))
    /\ Len(CallPairs[1][2][2]) # Len(CallPairs[2][2][2])
    /\ exc = "none"
    /\ result = Context

\* the text of pair i does not parse
Malformed(i) ==
    /\ CallPairs[i][1] \notin DOMAIN entry.string2contract
    /\ parseString(CallPairs[i][1], registrar).err # "none"

\* C16: check_multiple parses every text before it checks any value: with
\* a malformed text anywhere in the list the call raises
\* ContractSyntaxError, no value was checked and no binding is handed
\* back, even if an earlier pair violates its contract; the texts before
\* the first malformed one are in the cache all the same.
C16_ParseAllFirst ==
    (/\ call[1] = "check_multiple"
     /\ ValidCouples
     /\ \E i \in 1..Len(CallPairs) : Malformed(i))
    =>  /\ exc = "ContractSyntaxError"
        /\ trace = <<>>
        /\ result = None
        /\ held = entry.held
        /\ \A i \in 1..Len(CallPairs) :
               (\A j \in 1..i : ~Malformed(j))
               => CallPairs[i][1] \in DOMAIN string2contract

C16_Witness ==
    /\ call[1] = "check_multiple"
    /\ Len(CallPairs) = 2
    /\ ~Malformed(1)
    /\ Malformed(2)
    /\ ~Alone(1).ok
    /\ exc = "ContractSyntaxError"
    /\ trace = <<>>

\* C18: the parser and the registry agree: every registered identifier
\* parses to its Extension reference, the self-check at the end of
\* new_contract_impl never fails, and the cache holds no Extension
\* reference to an identifier that is not registered.
C18_ParserRegistryAgree ==
    /\ exc # "AssertionError"
    /\ \A id \in DOMAIN registrar :
           /\ ParseNow(id).exc = "none"
           /\ ParseNow(id).c = Extension(id)
    /\ \A t \in DOMAIN string2contract :
           string2contract[t][1] = "Extension"
           => string2contract[t][2] \in DOMAIN registrar

C18_Witness ==
    /\ Registered
    /\ IsCallable(call[3])
    /\ steps = <<"known", "identifier", "arity", "store", "selfcheck">>
    /\ call[2][2] \notin DOMAIN entry.string2contract
    /\ string2contract[call[2][2]] = Extension(call[2][2])

\* the extensions a node refers to
RECURSIVE Refs(_)
Refs(c) ==
    IF c = NoNode THEN {}
    ELSE CASE c[1] = "Extension"       -> {c[2]}
           [] c[1] = "SeparateContext" -> Refs(c[2])
           [] c[1] = "And"   -> UNION {Refs(c[2][i]) : i \in 1..Len(c[2])}
           [] c[1] = "Tuple" -> UNION {Refs(c[2][i]) : i \in 1..Len(c[2])}
           [] c[1] = "List"  -> Refs(c[2]) \cup Refs(c[3])
           [] OTHER -> {}

\* the extensions reached from the set S in at most n steps
RECURSIVE Reach(_, _)
Reach(S, n) ==
    IF n = 0 THEN S
    ELSE Reach(S \cup UNION {Refs(registrar[x]) : x \in S \cap DOMAIN registrar},
               n - 1)

\* the extensions the definition of id leads to
Reachable(id) == Reach(Refs(registrar[id]), Cardinality(DOMAIN registrar))

\* new_contract was called with the identifier as its own definition
SelfReference ==
    /\ call[1] = "new_contract"
    /\ IsStr(call[2]) /\ IsStr(call[3])
    /\ call[3][2] = call[2][2]

\* C19: no registered definition leads back to its own identifier,
\* directly or through other extensions, and every extension it leads to
\* is registered; a definition that names its own identifier is refused
\* with ValueError.
C19_NoCycles ==
    /\ \A id \in DOMAIN registrar :
           /\ id \notin Reachable(id)
           /\ Reachable(id) \subseteq DOMAIN registrar
    /\ SelfReference => exc = "ValueError" /\ registrar = entry.registrar

C19_Witness ==
    /\ call[1] = "new_contract"
    /\ IsStr(call[2]) /\ IsStr(call[3])
    /\ call[2][2] \in DOMAIN registrar
    /\ call[3][2] \in DOMAIN registrar
    /\ call[2][2] \in Reachable(call[3][2])
    /\ exc = "ValueError"

\* a decorated function was called
Invokes == call[1] = "call"

\* the wrapper that was called
Wrapped == decorated[call[2]]

\* the parameters of an order that have a contract
WithContract(order) ==
    SelectSeq(order, LAMBDA a : a \in DOMAIN Wrapped.accepts_parsed)

\* the order get_all_arg_names puts the parameters in: the positional
\* ones, *varargs, **varkw, then the keyword-only ones
CheckOrder == get_all_arg_names(Decorations[call[2]].function)

\* the order the def statement declares the parameters in
DeclaredOrder ==
    SelectSeq(Decorations[call[2]].function.args
                  \o <<Decorations[call[2]].function.varargs>>
                  \o Decorations[call[2]].function.kwonlyargs
                  \o <<Decorations[call[2]].function.varkw>>,
              LAMBDA x : x # NoName)

\* the contract and the value of the i-th check of a call that goes
\* through the parameters in the given order
CheckNode(order, i) ==
    IF i <= Len(WithContract(order))
    THEN Wrapped.accepts_parsed[WithContract(order)[i]]
    ELSE Wrapped.returns_parsed

CheckValue(order, i) ==
    IF i <= Len(WithContract(order)) THEN call[3][WithContract(order)[i]]
    ELSE call[4]

\* what the return contract binds when the result is checked on its own
ReturnAlone == check_contract(Wrapped.returns_parsed, Context, call[4], registrar)

\* C15: a call of a decorated function checks its arguments and its
\* result in one context that is empty when the call begins: every check
\* starts from the bindings of the checks before it, no binding is ever
\* replaced, and a result that would bind a variable of an argument
\* contract to another value is refused with ContractNotRespected.
C15_OneContextPerCall ==
    Invokes =>
        /\ trace # <<>>
        /\ \A i \in 1..Len(trace) :
               trace[i] = check_contract(CheckNode(CheckOrder, i),
                                         ContextBefore(i),
                                         CheckValue(CheckOrder, i), registrar)
        /\ \A i \in 1..Len(trace), j \in 1..Len(trace) :
               i < j => \A x \in DOMAIN trace[i].ctx :
                            /\ x \in DOMAIN trace[j].ctx
                            /\ trace[j].ctx[x] = trace[i].ctx[x]
        /\ (/\ Len(trace) = Len(WithContract(CheckOrder)) + 1
            /\ ReturnAlone.ok
            /\ \E x \in DOMAIN ReturnAlone.ctx
                         \cap DOMAIN ContextBefore(Len(trace)) :
                   ReturnAlone.ctx[x] # ContextBefore(Len(trace))[x])
           => exc = "ContractNotRespected" /\ result = None

C15_Witness ==
    /\ Invokes
    /\ Len(trace) = 3
    /\ "N" \in DOMAIN trace[2].ctx
    /\ ReturnAlone.ok
    /\ ReturnAlone.ctx["N"] # trace[2].ctx["N"]
    /\ exc = "ContractNotRespected"

IsPrefix(q, r) == Len(q) <= Len(r) /\ \A i \in 1..Len(q) : q[i] = r[i]

\* the body of the function was invoked
BodyInvoked == \E i \in 1..Len(steps) : steps[i] = "body"

\* a decorated call that goes through the parameters in the given order
OrderedCall(order) ==
    /\ IsPrefix(steps, WithContract(order) \o <<"body", "returns">>)
    /\ \A i \in 1..Len(trace) :
           /\ trace[i] = check_contract(CheckNode(order, i), ContextBefore(i),
                                        CheckValue(order, i), registrar)
           /\ i < Len(trace) => trace[i].ok
    /\ BodyInvoked <=> Len(trace) = Len(WithContract(order)) + 1
    /\ ~BodyInvoked =>
           /\ Len(trace) = Len(steps)
           /\ ~trace[Len(trace)].ok
           /\ exc = "ContractNotRespected"
           /\ result = None
    /\ BodyInvoked =>
           /\ steps = WithContract(order) \o <<"body", "returns">>
           /\ exc = IF trace[Len(trace)].ok THEN "none"
                    ELSE "ContractNotRespected"
           /\ result = IF trace[Len(trace)].ok THEN call[4] ELSE None

\* C17 as stated: the arguments are checked in the order the function
\* declares them.
C17_Original == Invokes => OrderedCall(DeclaredOrder)

\* C17, amended: the arguments are checked in the order of
\* get_all_arg_names (positional parameters as declared, *varargs,
\* **varkw, then the keyword-only parameters) before the body is invoked;
\* after a violation the body is not invoked; the result is checked after
\* the body and handed back only if that check succeeds.
C17_CallOrder == Invokes => OrderedCall(CheckOrder)

C17_Witness ==
    /\ Invokes
    /\ Len(WithContract(CheckOrder)) = 2
    /\ CheckOrder # DeclaredOrder
    /\ steps = <<"kw">>
    /\ ~check_contract(Wrapped.accepts_parsed["k"], Context, call[3]["k"],
                       registrar).ok
    /\ exc = "ContractNotRespected"

\* thread t returned from new_contract
Succeeded(t) ==
    threads.locals[t].pc = "done" /\ threads.locals[t].exc = "none"

\* both threads have called new_contract for the same identifier with
\* different definitions, and both calls are over
Conflict ==
    /\ \A t \in Threads : threads.locals[t].pc = "done"
    /\ threads.locals[1].identifier = threads.locals[2].identifier
    /\ threads.locals[1].condition # threads.locals[2].condition

\* the entry of the registry is the definition thread t parsed
Holds(t) ==
    /\ threads.locals[t].identifier[2] \in DOMAIN registrar
    /\ registrar[threads.locals[t].identifier[2]]
           = SeparateContext(threads.locals[t].bare_contract)

\* C20: two new_contract calls for the same new identifier with
\* different definitions.  If one call is over before the other begins,
\* at most one succeeds, the other raises ValueError, and the registry was
\* written at most once.  Both succeed only if the calls overlapped, and
\* then the registry was written twice and holds the definition of the
\* later writer, not that of the earlier one.
C20_UnserializedRegistration ==
    Conflict =>
        /\ \A t \in Threads : threads.locals[t].exc \in {"none", "ValueError"}
        /\ ~threads.overlapped =>
               /\ Len(threads.writes) <= 1
               /\ \E t \in Threads : threads.locals[t].exc = "ValueError"
               /\ \A t \in Threads : Succeeded(t) => Holds(t)
               /\ (\A t \in Threads : ~Succeeded(t)) => registrar = EmptyMap
        /\ (\A t \in Threads : Succeeded(t)) =>
               /\ threads.overlapped
               /\ Len(threads.writes) = 2
               /\ Holds(threads.writes[2])
               /\ ~Holds(threads.writes[1])

C20_Witness ==
    /\ Conflict
    /\ \A t \in Threads : Succeeded(t)
    /\ threads.overlapped
    /\ Len(threads.writes) = 2
    /\ Holds(threads.writes[2])
    /\ ~Holds(threads.writes[1])

\* C21: check_multiple first checks the list of couples itself against
\* list[>0](tuple(str, *)), in a context of its own.  An empty list, or a
\* couple whose first element is not a string, raises
\* ContractNotRespected with no pair parsed or checked: the only text
\* handed to the grammar or added to the cache is that contract.  When
\* the list is valid the first pair is checked against no bindings, so
\* the context returned holds the bindings of the pairs only.
C21_ValidatesFirst ==
    call[1] = "check_multiple" =>
        /\ CouplesContract \in DOMAIN string2contract
        /\ CouplesContract \notin DOMAIN entry.string2contract
           => engine[1] = CouplesContract
        /\ ~ValidCouples =>
               /\ exc = "ContractNotRespected"
               /\ trace = <<>>
               /\ result = None
               /\ held = entry.held
               /\ \A k \in 1..Len(engine) : engine[k] = CouplesContract
               /\ \A t \in DOMAIN string2contract :
                      t \in DOMAIN entry.string2contract \/ t = CouplesContract
        /\ (ValidCouples /\ trace # <<>>) =>
               /\ trace[1] = Alone(1)
               /\ exc = "none" => result = trace[Len(trace)].ctx

C21_Witness ==
    /\ call[1] = "check_multiple"
    /\ Len(call[2][2]) > 0
    /\ ~ValidCouples
    /\ exc = "ContractNotRespected"
    /\ engine = <<CouplesContract>>
    /\ trace = <<>>

=============================================================================
